---- MODULE Spec2Model ----
(***************************************************************************)
(* State-machine model of SVS/model/infer.py: infer(args).                 *)
(*                                                                         *)
(* One run of infer() is modelled.  The inputs of the run (the argument    *)
(* object, the checkpoint file, the test set with the answers of the       *)
(* external collaborators for each batch) are fixed in Init; every action  *)
(* is one block of the function, in program order, and pc is the position  *)
(* of the single thread.  An uncaught exception moves pc to "error".       *)
(*                                                                         *)
(* Real numbers are fixed-point integers; an average is kept exactly as    *)
(* the pair num/den, and den = 0 is the float NaN.                         *)
(***************************************************************************)
EXTENDS Integers, Sequences, FiniteSets, TLC

\* ------------------------------------------------------------------ bounds
MaxBatches == 2   \* utterances in the test set
MaxFrames  == 1   \* frames (valid / analysed / voiced) one batch contributes
MaxShape   == 2   \* tensor shapes are 1..MaxShape
MaxEntries == 3   \* entries in a checkpoint mapping
Unit       == 1   \* fixed-point value of 1.0 for rates and distortions

\* --------------------------------------------------------------- constants
\* DataLoader(batch_size=1): phone.size(0), the weight of the loss meters
BatchSize == 1

\* the classes bound by the import statement of SVS.model.network
Imported == {"GLU_TransformerSVS", "TransformerSVS", "LSTMSVS", "ConformerSVS"}

\* the tags the if/elif chain of the factory tests for
ModelTypes == {"GLU_Transformer", "LSTM", "GRU_gs", "PureTransformer", "Conformer"}

\* the class name each branch of the factory calls
ClassOf(tag) ==
  CASE tag = "GLU_Transformer" -> "GLU_TransformerSVS"
    [] tag = "LSTM"            -> "LSTMSVS"
    [] tag = "GRU_gs"          -> "GRUSVS_gs"
    [] tag = "PureTransformer" -> "TransformerSVS"
    [] tag = "Conformer"       -> "ConformerSVS"

\* the entry names the filtering loop passes over
IsReserved_drop(k) ==
  k \in {"normalizer.mean", "normalizer.std", "mel_normalizer.mean"}

IsReserved(k) ==
  k \in {"normalizer.mean", "normalizer.std", "mel_normalizer.mean", "mel_normalizer.std"}

\* the loss types the criterion selection accepts
SupportedLoss_any(l) == TRUE

SupportedLoss(l) == l = "l1" \/ l = "mse"

NoError == [type |-> "none", msg |-> <<>>]

EmptyMap == [x \in {} |-> 0]

\* model.state_dict(): name -> shape of the live model's parameters
ModelDict == [k \in {"enc.weight", "dec.weight"} |->
                 IF k = "enc.weight" THEN 1 ELSE 2]

Range(s) == {s[i] : i \in DOMAIN s}

\* ------------------------------------------------------------------ inputs
\* the argument object: every field infer() reads that changes its control flow
ArgsAll ==
  [model_type       : ModelTypes \cup {"Tacotron"},
   loss             : {"l1", "mse", "huber"},
   n_mels           : {0, 80},
   normalize        : BOOLEAN,
   stats_file       : {"", "stats.npy"},
   stats_mel_file   : {"", "stats_mel.npy"},
   perceptual_loss  : {0, 1},
   double_mel_loss  : BOOLEAN]

DefaultArgs ==
  [model_type |-> "LSTM", loss |-> "l1", n_mels |-> 80, normalize |-> FALSE,
   stats_file |-> "stats.npy", stats_mel_file |-> "stats_mel.npy",
   perceptual_loss |-> 0, double_mel_loss |-> FALSE]

\* the statistics the two files hold (mean, std of one feature dimension)
Stats    == [mean |-> 1, std |-> 2]
MelStats == [mean |-> 2, std |-> 3]

\* one entry of a checkpoint's state_dict: parameter name and tensor shape
Items ==
  [k : {"enc.weight", "dec.weight"}, size : 1..MaxShape]
    \cup [k : {"old.bias", "normalizer.mean", "normalizer.std",
               "mel_normalizer.mean", "mel_normalizer.std"}, size : {1}]

SeqsUpTo(S, n) == UNION {[1..k -> S] : k \in 0..n}

\* a state_dict is an ordered mapping: no name twice, iteration in sequence order
StateDicts ==
  {sd \in SeqsUpTo(Items, MaxEntries) :
      \A i, j \in DOMAIN sd : sd[i].k = sd[j].k => i = j}

Unreadable == [readable |-> FALSE, state_dict |-> <<>>]

CkptFiles == {Unreadable} \cup [readable : {TRUE}, state_dict : StateDicts]

GoodCkpt ==
  [readable |-> TRUE,
   state_dict |-> << [k |-> "enc.weight", size |-> 1],
                     [k |-> "normalizer.mean", size |-> 1],
                     [k |-> "dec.weight", size |-> 2] >>]

\* one batch of the loader (batch_size 1) with the answers of the collaborators
\* for it: the model's forward outputs and the values Metrics returns
MkBatch(L, n, v, e, x, o, g) ==
  [spec                     |-> Stats.mean + Stats.std * x,
   mel                      |-> MelStats.mean + MelStats.std * x,
   output                   |-> o,
   output_mel               |-> 1 - o,
   mcd_value                |-> 1 + v,
   length_sum               |-> L,
   f0_distortion_value      |-> 1 + L,
   voiced_frame_number_step |-> v,
   vuv_error_value          |-> e,
   frame_number_step        |-> n,
   f0_ground_truth_step     |-> [i \in 1..n |-> g],
   f0_synthesis_step        |-> [i \in 1..n |-> g + o]]

\* batches that differ in the frame counts and the error rate
WeightBatches ==
  {MkBatch(t[1], t[2], t[3], t[4], 1, 0, 1 + t[1]) :
     t \in {u \in {0, MaxFrames} \X {0, MaxFrames} \X {0, MaxFrames} \X {0, Unit} :
               u[3] <= u[2]}}

\* batches that differ in the signals: target, prediction, F0 track
SignalBatches ==
  {MkBatch(MaxFrames, MaxFrames, MaxFrames, Unit, x, o, g) :
     x \in {0, 1}, o \in {0, 1}, g \in {1, 2}}

Batch0 == MkBatch(MaxFrames, MaxFrames, MaxFrames, 0, 1, 0, 1)

\* the runs studied: every configuration on a fixed checkpoint and test set,
\* every checkpoint, and every test set, each with the other inputs fixed
Inputs ==
  (ArgsAll \X {GoodCkpt} \X {<<>>, <<Batch0>>})
    \cup ({[DefaultArgs EXCEPT !.model_type = m, !.loss = l] :
              m \in {"LSTM", "Conformer"}, l \in {"l1", "mse", "huber"}}
            \X CkptFiles \X {<<Batch0>>})
    \cup ({[DefaultArgs EXCEPT !.normalize = z, !.perceptual_loss = q] :
              z \in BOOLEAN, q \in {0, 1}}
            \X {GoodCkpt} \X SeqsUpTo(WeightBatches, MaxBatches))
    \cup ({[DefaultArgs EXCEPT !.normalize = z, !.loss = l] :
              z \in BOOLEAN, l \in {"l1", "mse"}}
            \X {GoodCkpt} \X SeqsUpTo(SignalBatches, MaxBatches))

\* ------------------------------------------------------------------- state
VARIABLES
  args,            \* the argument object
  ckpt_file,       \* what torch.load(args.model_file) finds
  test_set,        \* what the DataLoader yields, in dataset order
  pc,              \* position in infer()
  err,             \* the exception that ended the run
  model,           \* the constructed model's class, "none" before
  state_dict,      \* checkpoint['state_dict'], <<>> before it is read
  checkpoint_read, \* torch.load has returned
  it,              \* entries of state_dict the filtering loop has consumed
  state_dict_new,  \* name -> shape of the entries kept for loading
  para_list,       \* names of the entries left out for their shape
  counts,          \* the "Total .. loaded .." line, <<>> before it is printed
  weights_applied, \* load_state_dict has returned
  dataset_built,   \* SVSDataset and DataLoader exist
  criterion,       \* MaskedLoss type, "none" before
  meters,          \* the AverageMeter objects bound so far, by variable name
  f0_ground_truth_all, f0_synthesis_all,
  step,            \* enumerate(test_loader, 1): batches fetched
  loc,             \* the loop body's locals for the batch in hand
  figures,         \* log_figure calls
  corr_calls,      \* compute_f0_corr calls, with their arguments
  report           \* the final line, <<>> before it is printed

vars == <<args, ckpt_file, test_set, pc, err, model, state_dict, checkpoint_read,
          it, state_dict_new, para_list, counts, weights_applied, dataset_built,
          criterion, meters, f0_ground_truth_all, f0_synthesis_all, step, loc,
          figures, corr_calls, report>>

inputVars  == <<args, ckpt_file, test_set>>
loaderVars == <<state_dict, checkpoint_read, it, state_dict_new, para_list, counts,
                weights_applied>>
loopVars   == <<meters, f0_ground_truth_all, f0_synthesis_all, step, loc, figures,
                corr_calls, report>>

NoLocals == [spec |-> 0, mel |-> 0, output |-> 0, output_mel |-> 0,
             spec_origin |-> 0, normalized |-> FALSE, inverted |-> FALSE,
             spec_loss |-> 0, mel_loss |-> 0, final_loss |-> 0,
             metrics_pred |-> 0, metrics_target |-> 0, metrics_called |-> FALSE]

Init ==
  /\ \E i \in Inputs : args = i[1] /\ ckpt_file = i[2] /\ test_set = i[3]
  /\ pc = "construct"
  /\ err = NoError
  /\ model = "none"
  /\ state_dict = <<>>
  /\ checkpoint_read = FALSE
  /\ it = 0
  /\ state_dict_new = EmptyMap
  /\ para_list = <<>>
  /\ counts = <<>>
  /\ weights_applied = FALSE
  /\ dataset_built = FALSE
  /\ criterion = "none"
  /\ meters = EmptyMap
  /\ f0_ground_truth_all = <<>>
  /\ f0_synthesis_all = <<>>
  /\ step = 0
  /\ loc = NoLocals
  /\ figures = 0
  /\ corr_calls = <<>>
  /\ report = <<>>

\* an uncaught exception: the process ends where it stands
Raise(type, msg) == pc' = "error" /\ err' = [type |-> type, msg |-> msg]

\* ------------------------------------------------------------------- setup
\* the model factory: the if/elif chain on args.model_type
Construct ==
  /\ pc = "construct"
  /\ IF args.model_type \in ModelTypes
       THEN IF ClassOf(args.model_type) \in Imported
              THEN /\ model' = ClassOf(args.model_type)
                   /\ pc' = "load"
                   /\ UNCHANGED err
              ELSE /\ Raise("NameError", <<ClassOf(args.model_type)>>)
                   /\ UNCHANGED model
       ELSE /\ Raise("ValueError", <<"Not Support Model Type", args.model_type>>)
            /\ UNCHANGED model
  /\ UNCHANGED <<inputVars, loaderVars, dataset_built, criterion, loopVars>>

\* torch.load and the locals of the filtering loop
LoadCheckpoint ==
  /\ pc = "load"
  /\ IF ckpt_file.readable
       THEN /\ state_dict' = ckpt_file.state_dict
            /\ checkpoint_read' = TRUE
            /\ pc' = "filter"
            /\ UNCHANGED err
       ELSE /\ Raise("OSError", <<"model_file">>)
            /\ UNCHANGED <<state_dict, checkpoint_read>>
  /\ it' = 0
  /\ state_dict_new' = EmptyMap
  /\ para_list' = <<>>
  /\ UNCHANGED <<inputVars, model, counts, weights_applied, dataset_built, criterion,
                 loopVars>>

\* the body of "for k, v in state_dict.items()" on entry e;
\* st.failed: model_dict[k] raised KeyError
FilterStep_sticky(st, e) ==
  IF IsReserved(e.k) THEN st
  ELSE IF e.k \notin DOMAIN ModelDict THEN [st EXCEPT !.failed = TRUE]
  ELSE IF ModelDict[e.k] = e.size /\ st.para = <<>>
         THEN [st EXCEPT !.new = (e.k :> e.size) @@ st.new]
         ELSE [st EXCEPT !.para = Append(st.para, e.k)]

FilterStep(st, e) ==
  IF IsReserved(e.k) THEN st
  ELSE IF e.k \notin DOMAIN ModelDict THEN [st EXCEPT !.failed = TRUE]
  ELSE IF ModelDict[e.k] = e.size
         THEN [st EXCEPT !.new = (e.k :> e.size) @@ st.new]
         ELSE [st EXCEPT !.para = Append(st.para, e.k)]

\* one iteration of the filtering loop
FilterEntry ==
  /\ pc = "filter"
  /\ it < Len(state_dict)
  /\ LET e  == state_dict[it + 1]
         st == FilterStep([new |-> state_dict_new, para |-> para_list,
                           failed |-> FALSE], e)
     IN  IF st.failed
           THEN /\ Raise("KeyError", <<e.k>>)
                /\ UNCHANGED <<it, state_dict_new, para_list>>
           ELSE /\ it' = it + 1
                /\ state_dict_new' = st.new
                /\ para_list' = st.para
                /\ UNCHANGED <<pc, err>>
  /\ UNCHANGED <<inputVars, model, state_dict, checkpoint_read, counts,
                 weights_applied, dataset_built, criterion, loopVars>>

\* nn.Module.load_state_dict(sd), strict by default: every parameter of the
\* model must be in sd, and nothing else
LoadStateDictOK(sd) ==
  /\ DOMAIN ModelDict \subseteq DOMAIN sd
  /\ DOMAIN sd \subseteq DOMAIN ModelDict
  /\ \A k \in DOMAIN sd : sd[k] = ModelDict[k]

\* after the loop: the two print statements and model.load_state_dict
ApplyWeights ==
  /\ pc = "filter"
  /\ it = Len(state_dict)
  /\ counts' = [total   |-> Len(state_dict),
                loaded  |-> Cardinality(DOMAIN state_dict_new),
                skipped |-> para_list]
  /\ IF LoadStateDictOK(state_dict_new)
       THEN /\ weights_applied' = TRUE
            /\ pc' = "dataset"
            /\ UNCHANGED err
       ELSE /\ Raise("RuntimeError",
                     <<"Missing key(s) in state_dict",
                       DOMAIN ModelDict \ DOMAIN state_dict_new>>)
            /\ UNCHANGED weights_applied
  /\ UNCHANGED <<inputVars, model, state_dict, checkpoint_read, it, state_dict_new,
                 para_list, dataset_built, criterion, loopVars>>

\* SVSDataset, SVSCollator, DataLoader
BuildDataset ==
  /\ pc = "dataset"
  /\ dataset_built' = TRUE
  /\ pc' = "criterion"
  /\ UNCHANGED <<inputVars, err, model, loaderVars, criterion, loopVars>>

\* the loss criterion
SetupCriterion ==
  /\ pc = "criterion"
  /\ IF SupportedLoss(args.loss)
       THEN /\ criterion' = args.loss
            /\ pc' = "meters"
            /\ UNCHANGED err
       ELSE /\ Raise("ValueError", <<"Not Support Loss Type">>)
            /\ UNCHANGED criterion
  /\ UNCHANGED <<inputVars, model, loaderVars, dataset_built, loopVars>>

\* ------------------------------------------------------ running accumulators
\* AverageMeter(): zeroed
NewMeter == [sum |-> 0, count |-> 0, avg |-> [num |-> 0, den |-> 1], n |-> 0]

\* AverageMeter.update(val, w) without the division: sum and count
Accumulate(m, val, w) ==
  [m EXCEPT !.sum = m.sum + val * w, !.count = m.count + w, !.n = m.n + 1]

\* AverageMeter.update(val, w): avg = sum / count, NaN (den = 0) at count 0
Update(m, val, w) ==
  LET a == Accumulate(m, val, w)
  IN  [a EXCEPT !.avg = [num |-> a.sum, den |-> a.count]]

\* the first i updates of ups, all of them returning
RECURSIVE ApplyUpdates(_, _, _)
ApplyUpdates(ms, ups, i) ==
  IF i = 0 THEN ms
  ELSE LET prev == ApplyUpdates(ms, ups, i - 1)
           u    == ups[i]
       IN  [prev EXCEPT ![u[1]] = Update(prev[u[1]], u[2], u[3])]

\* the first i updates of ups, the i-th raising in its division
RaisedAt(ms, ups, i) ==
  LET prev == ApplyUpdates(ms, ups, i - 1)
      u    == ups[i]
  IN  [prev EXCEPT ![u[1]] = Accumulate(prev[u[1]], u[2], u[3])]

\* the accumulators infer() creates before the loop
MeterNames(a) ==
  {"losses", "spec_losses"}
    \cup (IF a.perceptual_loss > 0 THEN {"pe_losses"} ELSE {})
    \cup (IF a.n_mels > 0
            THEN {"mel_losses", "mcd_metric", "f0_distortion_metric",
                  "vuv_error_metric"}
                   \cup (IF a.double_mel_loss THEN {"double_mel_losses"} ELSE {})
            ELSE {})

SetupMeters ==
  /\ pc = "meters"
  /\ meters' = [m \in MeterNames(args) |-> NewMeter]
  /\ f0_ground_truth_all' = <<>>
  /\ f0_synthesis_all' = <<>>
  /\ pc' = "fetch"
  /\ UNCHANGED <<inputVars, err, model, loaderVars, dataset_built, criterion, step,
                 loc, figures, corr_calls, report>>

\* ---------------------------------------------------------------- the loop
\* GlobalMVN(path): the statistics are loaded from the file, which must exist
StatsLoadable(path) == path /= ""

\* GlobalMVN.__call__ and GlobalMVN.inverse on one feature value
Normalize(st, x) == (x - st.mean) \div st.std
Inverse(st, y)   == y * st.std + st.mean

Abs(x) == IF x < 0 THEN -x ELSE x

\* MaskedLoss(type)(output, target, mask) over one valid frame
Loss(type, output, target) ==
  IF type = "l1" THEN Abs(output - target)
  ELSE (output - target) * (output - target)

\* the loop header and the forward call: the next batch, or the end of the set
FetchBatch ==
  /\ pc = "fetch"
  /\ IF step < Len(test_set)
       THEN LET b == test_set[step + 1]
            IN  /\ step' = step + 1
                /\ loc' = [NoLocals EXCEPT !.spec = b.spec, !.mel = b.mel,
                                           !.output = b.output,
                                           !.output_mel = b.output_mel]
                /\ pc' = "normalize"
       ELSE /\ pc' = "report"
            /\ UNCHANGED <<step, loc>>
  /\ UNCHANGED <<inputVars, err, model, loaderVars, dataset_built, criterion, meters,
                 f0_ground_truth_all, f0_synthesis_all, figures, corr_calls, report>>

\* spec_origin = spec.clone(), then the optional normalization of the targets
CloneNormalize ==
  /\ pc = "normalize"
  /\ IF args.normalize
       THEN IF ~StatsLoadable(args.stats_file) \/ ~StatsLoadable(args.stats_mel_file)
              THEN /\ loc' = [loc EXCEPT !.spec_origin = loc.spec]
                   /\ Raise("OSError", <<"stats_file">>)
              ELSE /\ loc' = [loc EXCEPT !.spec_origin = loc.spec,
                                         !.spec = Normalize(Stats, loc.spec),
                                         !.mel = Normalize(MelStats, loc.mel),
                                         !.normalized = TRUE]
                   /\ pc' = "loss"
                   /\ UNCHANGED err
       ELSE /\ loc' = [loc EXCEPT !.spec_origin = loc.spec]
            /\ pc' = "loss"
            /\ UNCHANGED err
  /\ UNCHANGED <<inputVars, model, loaderVars, dataset_built, criterion, meters,
                 f0_ground_truth_all, f0_synthesis_all, step, figures, corr_calls,
                 report>>

\* the losses and the updates of the loss accumulators
ComputeLoss ==
  /\ pc = "loss"
  /\ LET spec_loss  == Loss(criterion, loc.output, loc.spec)
         mel_loss   == IF args.n_mels > 0
                         THEN Loss(criterion, loc.output_mel, loc.mel) ELSE 0
         final_loss == mel_loss + spec_loss
         ups        == << <<"losses", final_loss, BatchSize>>,
                          <<"spec_losses", spec_loss, BatchSize>> >>
                         \o (IF args.n_mels > 0
                               THEN << <<"mel_losses", mel_loss, BatchSize>> >>
                               ELSE <<>>)
     IN  /\ loc' = [loc EXCEPT !.spec_loss = spec_loss, !.mel_loss = mel_loss,
                               !.final_loss = final_loss]
         /\ meters' = ApplyUpdates(meters, ups, Len(ups))
  /\ pc' = "inverse"
  /\ UNCHANGED <<inputVars, err, model, loaderVars, dataset_built, criterion,
                 f0_ground_truth_all, f0_synthesis_all, step, figures, corr_calls,
                 report>>

\* the condition of the "normalize inverse stage"
InverseApplies_never(a) == FALSE

InverseApplies(a) == a.normalize /\ a.stats_file /= ""

InverseNormalize ==
  /\ pc = "inverse"
  /\ IF InverseApplies(args)
       THEN loc' = [loc EXCEPT !.output = Inverse(Stats, loc.output),
                               !.inverted = TRUE]
       ELSE UNCHANGED loc
  /\ pc' = "metrics"
  /\ UNCHANGED <<inputVars, err, model, loaderVars, dataset_built, criterion, meters,
                 f0_ground_truth_all, f0_synthesis_all, step, figures, corr_calls,
                 report>>

\* the three metric updates of one batch: accumulator, value, weight
MetricUpdates_swapped(b) ==
  << <<"mcd_metric", b.mcd_value, b.length_sum>>,
     <<"f0_distortion_metric", b.f0_distortion_value, b.frame_number_step>>,
     <<"vuv_error_metric", b.vuv_error_value, b.voiced_frame_number_step>> >>

MetricUpdates(b) ==
  << <<"mcd_metric", b.mcd_value, b.length_sum>>,
     <<"f0_distortion_metric", b.f0_distortion_value, b.voiced_frame_number_step>>,
     <<"vuv_error_metric", b.vuv_error_value, b.frame_number_step>> >>

\* the two Metrics calls, the F0 concatenation and the metric updates.  A
\* division at count 0 raises (Python numbers) or gives NaN (numpy numbers).
ComputeMetrics ==
  /\ pc = "metrics"
  /\ LET b   == test_set[step]
         ups == MetricUpdates(b)
     IN  /\ loc' = [loc EXCEPT !.metrics_pred = loc.output,
                               !.metrics_target = loc.spec_origin,
                               !.metrics_called = TRUE]
         /\ f0_ground_truth_all' = f0_ground_truth_all \o b.f0_ground_truth_step
         /\ f0_synthesis_all' = f0_synthesis_all \o b.f0_synthesis_step
         /\ \/ /\ "mcd_metric" \notin DOMAIN meters
               /\ Raise("NameError", <<"mcd_metric">>)
               /\ UNCHANGED meters
            \/ /\ "mcd_metric" \in DOMAIN meters
               /\ meters' = ApplyUpdates(meters, ups, Len(ups))
               /\ pc' = "log"
               /\ UNCHANGED err
            \/ /\ "mcd_metric" \in DOMAIN meters
               /\ \E i \in DOMAIN ups :
                    /\ meters[ups[i][1]].count + ups[i][3] = 0
                    /\ meters' = RaisedAt(meters, ups, i)
                    /\ Raise("ZeroDivisionError", <<ups[i][1]>>)
  /\ UNCHANGED <<inputVars, model, loaderVars, dataset_built, criterion, step,
                 figures, corr_calls, report>>

\* log_figure and the progress line
LogStep ==
  /\ pc = "log"
  /\ figures' = figures + 1
  /\ pc' = "fetch"
  /\ UNCHANGED <<inputVars, err, model, loaderVars, dataset_built, criterion, meters,
                 f0_ground_truth_all, f0_synthesis_all, step, loc, corr_calls, report>>

\* ------------------------------------------------------------------ report
\* the final line: spec_loss, mel_loss if n_mels > 0, then compute_f0_corr,
\* then the three metric averages
PrintReport ==
  /\ pc = "report"
  /\ corr_calls' = Append(corr_calls, [gt |-> f0_ground_truth_all,
                                        syn |-> f0_synthesis_all])
  /\ IF "mcd_metric" \in DOMAIN meters
       THEN /\ report' =
                 [spec_loss   |-> meters["spec_losses"].avg,
                  mel_loss    |-> IF args.n_mels > 0
                                    THEN <<meters["mel_losses"].avg>> ELSE <<>>,
                  mcd_value   |-> meters["mcd_metric"].avg,
                  f0_mse      |-> meters["f0_distortion_metric"].avg,
                  vuv_percent |-> [num |-> meters["vuv_error_metric"].avg.num * 100,
                                   den |-> meters["vuv_error_metric"].avg.den * Unit]]
            /\ pc' = "done"
            /\ UNCHANGED err
       ELSE /\ Raise("NameError", <<"mcd_metric">>)
            /\ UNCHANGED report
  /\ UNCHANGED <<inputVars, model, loaderVars, dataset_built, criterion, meters,
                 f0_ground_truth_all, f0_synthesis_all, step, loc, figures>>

Next ==
  \/ Construct
  \/ LoadCheckpoint
  \/ FilterEntry
  \/ ApplyWeights
  \/ BuildDataset
  \/ SetupCriterion
  \/ SetupMeters
  \/ FetchBatch
  \/ CloneNormalize
  \/ ComputeLoss
  \/ InverseNormalize
  \/ ComputeMetrics
  \/ LogStep
  \/ PrintReport

Spec == Init /\ [][Next]_vars

\* ================================================================= claims
ReservedNames == {"normalizer.mean", "normalizer.std",
                  "mel_normalizer.mean", "mel_normalizer.std"}

Names(sd, n) == {sd[i].k : i \in 1..n}

\* the filtering loop has run to its end
FilterComplete == pc = "filter" /\ it = Len(state_dict)

\* C1: every valid model_type tag yields a constructed model, and any other
\* string a ValueError whose message names the tag; no valid tag ends in an
\* error of another kind.
C1_FactoryContract ==
  pc /= "construct" =>
    IF args.model_type \in {"GLU_Transformer", "LSTM", "GRU_gs", "PureTransformer",
                            "Conformer"}
      THEN model /= "none"
      ELSE /\ pc = "error"
           /\ err.type = "ValueError"
           /\ err.msg = <<"Not Support Model Type", args.model_type>>

\* C2: a readable checkpoint whose entries differ from the live model only in
\* shape never aborts the run: the mismatching entries are skipped and listed,
\* the weights are applied and the run goes on.
C2_ShapeMismatchNotFatal ==
  ( /\ checkpoint_read
    /\ Names(state_dict, Len(state_dict)) \ ReservedNames = DOMAIN ModelDict
    /\ \E i \in DOMAIN state_dict :
         /\ state_dict[i].k \in DOMAIN ModelDict
         /\ state_dict[i].size /= ModelDict[state_dict[i].k] )
  => /\ ~(pc = "error" /\ err.type = "RuntimeError")
     /\ (counts /= <<>> => weights_applied)

\* C3: with n_mels = 0 the run still reaches its report: it never fails on an
\* accumulator that is updated per batch or read in the report but was not
\* created.
C3_NoMelRunReachesReport ==
  args.n_mels = 0 =>
    ~(pc = "error" /\ err = [type |-> "NameError", msg |-> <<"mcd_metric">>])

\* batches whose metric updates have all returned
Scored ==
  IF pc \in {"normalize", "loss", "inverse", "metrics"} THEN step - 1 ELSE step

\* the value and the weight the claim gives each metric accumulator
ClaimedValue(name, b) ==
  CASE name = "mcd_metric"           -> b.mcd_value
    [] name = "f0_distortion_metric" -> b.f0_distortion_value
    [] name = "vuv_error_metric"     -> b.vuv_error_value

ClaimedWeight(name, b) ==
  CASE name = "mcd_metric"           -> b.length_sum
    [] name = "f0_distortion_metric" -> b.voiced_frame_number_step
    [] name = "vuv_error_metric"     -> b.frame_number_step

RECURSIVE WeightedSum(_, _)
WeightedSum(name, k) ==
  IF k = 0 THEN 0
  ELSE WeightedSum(name, k - 1)
         + ClaimedValue(name, test_set[k]) * ClaimedWeight(name, test_set[k])

RECURSIVE TotalWeight(_, _)
TotalWeight(name, k) ==
  IF k = 0 THEN 0
  ELSE TotalWeight(name, k - 1) + ClaimedWeight(name, test_set[k])

\* C4: each of the MCD, F0-distortion and VUV accumulators holds the sum of
\* value * weight and the sum of the weights over the batches scored so far
\* (valid frames for MCD, voiced frames for F0, all frames for VUV), and its
\* average is their quotient: the result depends on the batches alone, not on
\* how the sequence is cut into runs of updates.
C4_WeightedAverages ==
  pc /= "error" =>
    \A name \in {"mcd_metric", "f0_distortion_metric", "vuv_error_metric"}
                  \cap DOMAIN meters :
      /\ meters[name].sum = WeightedSum(name, Scored)
      /\ meters[name].count = TotalWeight(name, Scored)
      /\ meters[name].n = Scored
      /\ (Scored > 0 =>
            meters[name].avg = [num |-> WeightedSum(name, Scored),
                                den |-> TotalWeight(name, Scored)])

C4_Witness ==
  /\ pc = "done"
  /\ step >= 2
  /\ meters["mcd_metric"].count /= meters["vuv_error_metric"].count
  /\ meters["vuv_error_metric"].count /= meters["f0_distortion_metric"].count
  /\ meters["mcd_metric"].sum > 0
  /\ meters["f0_distortion_metric"].sum > 0

\* the filtering loop run on a whole mapping, from fresh locals
RECURSIVE FilterAll(_, _)
FilterAll(sd, i) ==
  IF i = 0 THEN [new |-> EmptyMap, para |-> <<>>, failed |-> FALSE]
  ELSE LET st == FilterAll(sd, i - 1)
       IN  IF st.failed THEN st ELSE FilterStep(st, sd[i])

\* the same mapping in every iteration order
Orders(sd) ==
  {[i \in DOMAIN sd |-> sd[p[i]]] :
     p \in {q \in [DOMAIN sd -> DOMAIN sd] :
              \A i, j \in DOMAIN sd : q[i] = q[j] => i = j}}

\* C5 as stated: the loaded set and the skipped-name list are the same for
\* every iteration order of the checkpoint mapping.
C5_SameListEveryOrder ==
  FilterComplete =>
    \A sd \in Orders(state_dict) :
      LET r == FilterAll(sd, Len(sd))
      IN  r.new = state_dict_new /\ r.para = para_list

\* C5 amended: for every iteration order the loop ends the same way (completes
\* or fails), the loaded set is the same, and the skipped list holds the same
\* names, each once, in the order the mapping yields them; a second run in the
\* same order gives the identical list.
C5_SameSetEveryOrder ==
  /\ FilterComplete =>
       \A sd \in Orders(state_dict) :
         LET r          == FilterAll(sd, Len(sd))
             Skipped(e) == e.k \in Range(para_list)
             names      == SelectSeq(sd, Skipped)
         IN  /\ ~r.failed
             /\ r.new = state_dict_new
             /\ Range(r.para) = Range(para_list)
             /\ r.para = [i \in DOMAIN names |-> names[i].k]
             /\ (sd = state_dict => r.para = para_list)
  /\ (pc = "error" /\ err.type = "KeyError") =>
       \A sd \in Orders(state_dict) : FilterAll(sd, Len(sd)).failed

C5_Witness ==
  /\ FilterComplete
  /\ Len(para_list) = 2
  /\ Len(state_dict) = 3
  /\ state_dict[2].k \in ReservedNames

\* nothing of the loop or the report has happened
NothingComputed ==
  /\ step = 0
  /\ \A m \in DOMAIN meters : meters[m].n = 0
  /\ f0_ground_truth_all = <<>>
  /\ f0_synthesis_all = <<>>
  /\ figures = 0
  /\ corr_calls = <<>>
  /\ report = <<>>

\* C6: an unknown model_type ends the run in a ValueError with no checkpoint
\* read, no dataset built and nothing computed; an unknown loss type never
\* gets past the criterion selection, where it is a ValueError, so no batch is
\* processed, no accumulator updated, no F0 data appended, no figure emitted.
C6_ConfigErrorsBeforeComputation ==
  /\ args.model_type \notin {"GLU_Transformer", "LSTM", "GRU_gs",
                             "PureTransformer", "Conformer"} =>
       /\ pc \in {"construct", "error"}
       /\ (pc = "error" => err.type = "ValueError")
       /\ ~checkpoint_read
       /\ ~dataset_built
       /\ NothingComputed
  /\ args.loss \notin {"l1", "mse"} =>
       /\ pc \in {"construct", "load", "filter", "dataset", "criterion", "error"}
       /\ criterion = "none"
       /\ (dataset_built /\ pc /= "criterion" =>
             pc = "error" /\ err.type = "ValueError")
       /\ NothingComputed

C6_Witness ==
  /\ args.loss = "huber"
  /\ pc = "error"
  /\ err = [type |-> "ValueError", msg |-> <<"Not Support Loss Type">>]
  /\ checkpoint_read
  /\ dataset_built

\* C7: the reported VUV error rate is a number in [0, 100] percent after any
\* sequence of batches, batches of zero frames included, and no such batch
\* ends the run in the accumulator's division.
C7_VuvRateBounded ==
  /\ pc = "done" =>
       /\ report.vuv_percent.den > 0
       /\ 0 <= report.vuv_percent.num
       /\ report.vuv_percent.num <= 100 * report.vuv_percent.den
  /\ ~(pc = "error" /\ err = [type |-> "ZeroDivisionError",
                              msg |-> <<"vuv_error_metric">>])

\* C8: in every batch step the clone is the target as loaded, the loss is
\* computed on the prediction as the model gave it and the loss accumulators
\* are updated before the inverse, the metrics get the un-normalized target,
\* and the prediction they get is the inverse-normalized one exactly when the
\* target was normalized in this step.
C8_StepOrder ==
  step > 0 =>
    LET b == test_set[step]
    IN  /\ pc \in {"loss", "inverse", "metrics", "log"} =>
             /\ loc.spec_origin = b.spec
             /\ loc.normalized = args.normalize
             /\ loc.spec = IF args.normalize
                           THEN (b.spec - Stats.mean) \div Stats.std ELSE b.spec
        /\ pc = "loss" =>
             /\ loc.output = b.output
             /\ meters["losses"].n = step - 1
             /\ meters["spec_losses"].n = step - 1
        /\ pc = "inverse" =>
             /\ loc.output = b.output
             /\ ~loc.inverted
             /\ meters["losses"].n = step
             /\ meters["spec_losses"].n = step
             /\ ~loc.metrics_called
        /\ loc.metrics_called =>
             /\ loc.metrics_target = b.spec
             /\ loc.metrics_pred = IF loc.normalized
                                  THEN b.output * Stats.std + Stats.mean
                                  ELSE b.output
             /\ loc.inverted = loc.normalized

C8_Witness ==
  /\ pc = "log"
  /\ loc.metrics_called
  /\ loc.normalized
  /\ loc.metrics_pred /= test_set[step].output
  /\ loc.metrics_target /= loc.spec

RECURSIVE ConcatF0(_, _)
ConcatF0(field, k) ==
  IF k = 0 THEN <<>>
  ELSE ConcatF0(field, k - 1)
         \o (IF field = "gt" THEN test_set[k].f0_ground_truth_step
                              ELSE test_set[k].f0_synthesis_step)

\* C9: between steps, after k batches, every accumulator that exists has had
\* exactly k updates and the two F0 arrays are the concatenation of the first
\* k batches' arrays in dataset order; the F0 correlation is computed once,
\* after the last batch, on the whole arrays.
C9_SequentialSteps ==
  /\ pc = "fetch" =>
       /\ \A m \in DOMAIN meters : meters[m].n = step
       /\ f0_ground_truth_all = ConcatF0("gt", step)
       /\ f0_synthesis_all = ConcatF0("syn", step)
  /\ Len(corr_calls) <= 1
  /\ corr_calls /= <<>> =>
       /\ step = Len(test_set)
       /\ corr_calls[1] = [gt  |-> ConcatF0("gt", Len(test_set)),
                           syn |-> ConcatF0("syn", Len(test_set))]

\* entries among the first n of sd that carry a reserved name
ReservedIn(sd, n) == {i \in 1..n : sd[i].k \in ReservedNames}

\* C10: the entries the loop has passed are partitioned into reserved names,
\* loaded entries and skipped entries, so total = loaded + skipped + reserved;
\* no reserved name is loaded or skipped; the loop fails exactly at a
\* non-reserved entry whose name the live model does not have.
C10_FilterPartition ==
  /\ checkpoint_read =>
       LET passed == Names(state_dict, it)
       IN  /\ passed = (passed \cap ReservedNames) \cup DOMAIN state_dict_new
                          \cup Range(para_list)
           /\ DOMAIN state_dict_new \cap ReservedNames = {}
           /\ Range(para_list) \cap ReservedNames = {}
           /\ DOMAIN state_dict_new \cap Range(para_list) = {}
           /\ Len(para_list) = Cardinality(Range(para_list))
           /\ it = Cardinality(DOMAIN state_dict_new) + Len(para_list)
                     + Cardinality(ReservedIn(state_dict, it))
           /\ \A k \in passed \ ReservedNames : k \in DOMAIN ModelDict
           /\ \A k \in DOMAIN state_dict_new : state_dict_new[k] = ModelDict[k]
           /\ (it < Len(state_dict) /\ pc /= "filter") =>
                /\ pc = "error"
                /\ err = [type |-> "KeyError", msg |-> <<state_dict[it + 1].k>>]
                /\ state_dict[it + 1].k \notin ReservedNames
                /\ state_dict[it + 1].k \notin DOMAIN ModelDict
           /\ (pc = "error" /\ err.type = "KeyError") => it < Len(state_dict)
  /\ counts /= <<>> =>
       /\ it = Len(state_dict)
       /\ counts.total = counts.loaded + Len(counts.skipped)
                           + Cardinality(ReservedIn(state_dict, Len(state_dict)))

C10_Witness ==
  /\ counts /= <<>>
  /\ counts.loaded = 1
  /\ Len(counts.skipped) = 1
  /\ Cardinality(ReservedIn(state_dict, Len(state_dict))) = 1
====
